---- MODULE Spec2Model ----
(***************************************************************************)
(* A model of src/cmd/oracle.rs: the oracle price report commands          *)
(* (report, report-weighted-average, automate), the Price type and the     *)
(* weighted aggregation of the four price sources.                         *)
(*                                                                         *)
(* rust_decimal's Decimal is a sign, a 96 bit mantissa and a scale         *)
(* (value = mantissa / 10^scale).  The mantissas are kept as sequences of  *)
(* decimal digits, least significant first, without leading zeros, so that *)
(* 10^8 scaling and the 2^64 and 2^96 limits are computed exactly.         *)
(***************************************************************************)
EXTENDS Integers, Sequences, FiniteSets, TLC

----------------------------------------------------------------------------
(* Natural numbers as digit sequences (least significant digit first).     *)

Max(a, b) == IF a >= b THEN a ELSE b

Abs(n) == IF n < 0 THEN 0 - n ELSE n

\* The largest element of a non-empty set of integers.
Top(S) == CHOOSE i \in S : \A j \in S : j <= i

Low(d) == IF d = <<>> THEN 0 ELSE Head(d)

\* The digit at place i, 0 beyond the length.
At(d, i) == IF i \in 1 .. Len(d) THEN d[i] ELSE 0

\* Without leading zeros.
StripD(d) ==
    LET nz == {i \in 1 .. Len(d) : d[i] # 0}
    IN  IF nz = {} THEN <<>> ELSE SubSeq(d, 1, Top(nz))

RECURSIVE NatD(_)
NatD(n) == IF n = 0 THEN <<>> ELSE <<n % 10>> \o NatD(n \div 10)

\* Most-significant-first digits to the internal form.
Rev(s) == SubSeq([i \in 1 .. Len(s) |-> s[Len(s) + 1 - i]], 1, Len(s))

\* a + b + c for a carry c of 0 or 1: the carry into place i comes from a
\* lower place whose digits sum to 10 or more, through places that sum to 9.
AddC(a, b, c) ==
    LET n == Max(Len(a), Len(b)) + 1
        sum(i) == IF i = 0 THEN 9 + c ELSE At(a, i) + At(b, i)
        carry(i) == \E j \in 0 .. i - 1 :
                        sum(j) >= 10 /\ \A k \in j + 1 .. i - 1 : sum(k) = 9
    IN  StripD([i \in 1 .. n |-> (sum(i) + IF carry(i) THEN 1 ELSE 0) % 10])

AddD(a, b) == AddC(a, b, 0)

\* a + 1.
IncD(a) == AddC(a, <<>>, 1)

\* a - b for a >= b: the borrow into place i comes from a lower place where
\* a's digit is the smaller, through places where the digits are equal.
SubD(a, b) ==
    LET borrow(i) == \E j \in 1 .. i - 1 :
                         At(a, j) < At(b, j) /\ \A k \in j + 1 .. i - 1 : At(a, k) = At(b, k)
    IN  StripD([i \in 1 .. Len(a) |->
                   (10 + At(a, i) - At(b, i) - IF borrow(i) THEN 1 ELSE 0) % 10])

\* -1, 0, 1 as a < b, a = b, a > b (both without leading zeros).
CmpD(a, b) ==
    IF Len(a) < Len(b) THEN -1
    ELSE IF Len(a) > Len(b) THEN 1
    ELSE LET diff == {i \in 1 .. Len(a) : a[i] # b[i]}
         IN  IF diff = {} THEN 0
             ELSE IF a[Top(diff)] < b[Top(diff)] THEN -1 ELSE 1

\* a * 10^n.
ShiftL(a, n) ==
    IF a = <<>> THEN <<>>
    ELSE SubSeq([i \in 1 .. Len(a) + n |-> IF i <= n THEN 0 ELSE a[i - n]],
                1, Len(a) + n)

\* a div 10^n.
ShiftR(a, n) == IF n >= Len(a) THEN <<>> ELSE SubSeq(a, n + 1, Len(a))

\* a * d for one digit d: the units of each product, plus the tens one
\* place up.
MulDigit(a, d) ==
    AddD(StripD([i \in 1 .. Len(a) |-> (a[i] * d) % 10]),
         StripD([i \in 1 .. Len(a) + 1 |-> IF i = 1 THEN 0 ELSE (a[i - 1] * d) \div 10]))

\* The sum of the digit products a[i] * b[k + 1 - i] of place k, for i in
\* lo .. hi, by halves.
RECURSIVE ColumnSum(_, _, _, _, _)
ColumnSum(a, b, k, lo, hi) ==
    IF lo = hi THEN At(a, lo) * At(b, k + 1 - lo)
    ELSE LET mid == (lo + hi) \div 2
         IN  ColumnSum(a, b, k, lo, mid) + ColumnSum(a, b, k, mid + 1, hi)

\* a * b for numbers of less than 123 digits: the sum of a place is below
\* 10^4, and the product is the sum of the units, tens, hundreds and
\* thousands of the places' sums.
MulD(a, b) ==
    IF a = <<>> \/ b = <<>> THEN <<>>
    ELSE LET n == Len(a) + Len(b)
             col == SubSeq([k \in 1 .. n |-> ColumnSum(a, b, k, 1, Len(a))], 1, n)
             part(p) == StripD([k \in 1 .. n |-> (col[k] \div p) % 10])
         IN  AddD(AddD(part(1), ShiftL(part(10), 1)),
                  AddD(ShiftL(part(100), 2), ShiftL(part(1000), 3)))

\* a * k for a machine-size k.
MulSmall(a, k) == MulD(a, NatD(k))

RECURSIVE Pow2(_)
Pow2(k) == IF k = 0 THEN 1 ELSE 2 * Pow2(k - 1)

RECURSIVE Pow5(_)
Pow5(k) == IF k = 0 THEN 1 ELSE 5 * Pow5(k - 1)

\* a * 5^k, at most 5^11 at a time.
RECURSIVE MulPow5(_, _)
MulPow5(a, k) ==
    IF k <= 11 THEN MulSmall(a, Pow5(k))
    ELSE MulPow5(MulSmall(a, Pow5(11)), k - 11)

----------------------------------------------------------------------------
(* rust_decimal::Decimal: [neg, m, scale] is (-1)^neg * m / 10^scale.      *)
(* Fallible library calls return [ok, v].                                  *)

Some(v) == [ok |-> TRUE, v |-> v]

None == [ok |-> FALSE, v |-> <<>>]

Dec(neg, m, scale) == [neg |-> neg, m |-> m, scale |-> scale]

DecZero == Dec(FALSE, <<>>, 0)

DecOfNat(n) == Dec(FALSE, NatD(n), 0)

\* 2^96 - 1, the largest mantissa of a Decimal.
Max96 == Rev(<<7,9,2,2,8,1,6,2,5,1,4,2,6,4,3,3,7,5,9,3,5,4,3,9,5,0,3,3,5>>)

\* 2^64 - 1.
U64Max == Rev(<<1,8,4,4,6,7,4,4,0,7,3,7,0,9,5,5,1,6,1,5>>)

\* Decimal * Decimal (the product's scale is the sum of the scales; a zero
\* operand gives Decimal zero).
DecMul(a, b) ==
    IF a.m = <<>> \/ b.m = <<>> THEN DecZero
    ELSE Dec(a.neg # b.neg, MulD(a.m, b.m), a.scale + b.scale)

\* Decimal + Decimal at the larger scale.
DecAdd(a, b) ==
    LET s  == Max(a.scale, b.scale)
        am == ShiftL(a.m, s - a.scale)
        bm == ShiftL(b.m, s - b.scale)
        c  == CmpD(am, bm)
    IN  IF a.neg = b.neg THEN Dec(a.neg, AddD(am, bm), s)
        ELSE IF c = 0 THEN Dec(FALSE, <<>>, s)
        ELSE IF c > 0 THEN Dec(a.neg, SubD(am, bm), s)
        ELSE Dec(b.neg, SubD(bm, am), s)

\* Numeric equality of two Decimals (PartialEq ignores the scale).
DecEq(a, b) ==
    LET s  == Max(a.scale, b.scale)
        am == ShiftL(a.m, s - a.scale)
        bm == ShiftL(b.m, s - b.scale)
    IN  am = bm /\ (am = <<>> \/ a.neg = b.neg)

\* Drop the lowest digit, adding one when it is 5 or more.
DropDigitRound(m) ==
    IF Low(m) >= 5 THEN IncD(ShiftR(m, 1)) ELSE ShiftR(m, 1)

\* A fault for C9: the digits past dp are cut, never rounded.
RoundDown(d, dp) ==
    IF d.scale <= dp THEN d
    ELSE Dec(d.neg, ShiftR(d.m, d.scale - dp), dp)

\* round_dp_with_strategy(dp, RoundingStrategy::RoundHalfUp): the magnitude
\* is cut to dp fractional digits and raised by one unit when the first
\* digit cut is 5 or more.
RoundHalfUp(d, dp) ==
    IF d.scale <= dp THEN d
    ELSE LET k == d.scale - dp
             q == ShiftR(d.m, k)
             up == k <= Len(d.m) /\ d.m[k] >= 5
         IN  Dec(d.neg, IF up THEN IncD(q) ELSE q, dp)

\* A product too wide for 96 bits is cut back one fractional digit at a
\* time; with no fractional digit left the multiplication has overflowed.
RECURSIVE FitScale(_, _, _)
FitScale(neg, m, scale) ==
    IF CmpD(m, Max96) <= 0 THEN Some(Dec(neg, m, scale))
    ELSE IF scale = 0 THEN None
    ELSE FitScale(neg, DropDigitRound(m), scale - 1)

CheckedMul(a, b) ==
    IF a.m = <<>> \/ b.m = <<>> THEN Some(DecZero)
    ELSE FitScale(a.neg # b.neg, MulD(a.m, b.m), a.scale + b.scale)

\* A fault for C10: the integer part is given whatever its width.
ToU64Unchecked(d) ==
    IF d.neg THEN None ELSE Some(ShiftR(d.m, d.scale))

\* Decimal::to_u64: None for a negative value, else the integer part
\* (the fraction is truncated), None when it needs more than 64 bits.
ToU64(d) ==
    IF d.neg THEN None
    ELSE LET t == ShiftR(d.m, d.scale)
         IN  IF CmpD(t, U64Max) > 0 THEN None ELSE Some(t)

----------------------------------------------------------------------------
(* f32.  The weights of the model are small integers, which f32 holds      *)
(* exactly, so a weight and a sum of weights are kept as integers.  The    *)
(* quotient 1.0 / sum_weights is rounded to the 24 bit significand:        *)
(* [fin, neg, mant, e] is (-1)^neg * mant / 2^e.                           *)

F32OfInt(n) == [fin |-> TRUE, neg |-> n < 0, mant |-> Abs(n), e |-> 0]

F32Inf == [fin |-> FALSE, neg |-> FALSE, mant |-> 0, e |-> 0]

\* The exponent e with 2^23 <= 2^e / n < 2^24.
RecipExp(n) == CHOOSE e \in 23..30 : Pow2(23) * n <= Pow2(e) /\ Pow2(e) < Pow2(24) * n

\* 1.0 / x for the integer-valued x (round to nearest, ties to even);
\* 1.0 / 0.0 is infinite.
F32Recip(x) ==
    IF x = 0 THEN F32Inf
    ELSE LET n == Abs(x)
             e == RecipExp(n)
             q == Pow2(e) \div n
             r == Pow2(e) % n
             m == IF 2 * r > n \/ (2 * r = n /\ q % 2 = 1) THEN q + 1 ELSE q
         IN  [fin |-> TRUE, neg |-> x < 0, mant |-> m, e |-> e]

\* 2^24: a mantissa below it fits the significand of an f32.
F32Digits == NatD(Pow2(24))

\* Decimal::from_f32 keeps the digits f32 guarantees: the exact decimal
\* expansion loses its lowest digit (rounding up on 5 or more) while it has
\* fractional digits and does not fit in 24 bits ...
RECURSIVE RoundToF32Digits(_, _)
RoundToF32Digits(m, scale) ==
    IF scale > 0 /\ CmpD(m, F32Digits) >= 0
    THEN RoundToF32Digits(DropDigitRound(m), scale - 1)
    ELSE [m |-> m, scale |-> scale]

\* ... and then its trailing fractional zeros.
StripZeros(m, scale) ==
    LET nz == {i \in 1 .. Len(m) : m[i] # 0}
        zeros == IF nz = {} THEN 0 ELSE (CHOOSE i \in nz : \A j \in nz : i <= j) - 1
        cut == IF zeros <= scale THEN zeros ELSE scale
    IN  [m |-> ShiftR(m, cut), scale |-> scale - cut]

\* Decimal::from_f32: None for an infinity or NaN.
DecimalFromF32(f) ==
    IF ~f.fin THEN None
    ELSE IF f.mant = 0 THEN Some(Dec(f.neg, <<>>, 0))
    ELSE LET exact == MulPow5(NatD(f.mant), f.e)
             r == RoundToF32Digits(exact, f.e)
             z == StripZeros(r.m, r.scale)
         IN  Some(Dec(f.neg, z.m, z.scale))

----------------------------------------------------------------------------
(* Text.  A string is a sequence of one-character strings.                 *)

DigitVal ==
    [c \in {"0", "1", "2", "3", "4", "5", "6", "7", "8", "9"} |->
        CASE c = "0" -> 0 [] c = "1" -> 1 [] c = "2" -> 2 [] c = "3" -> 3
          [] c = "4" -> 4 [] c = "5" -> 5 [] c = "6" -> 6 [] c = "7" -> 7
          [] c = "8" -> 8 [] c = "9" -> 9]

IsDigit(c) == c \in DOMAIN DigitVal

\* The digits and the one optional point of an unsigned decimal literal:
\* at least one digit, nothing else; the scale counts the digits that follow
\* the point.
ScanDecimal(cs, neg) ==
    LET points == {i \in 1 .. Len(cs) : cs[i] = "."}
        digits == SelectSeq(cs, IsDigit)
        scale == IF points = {} THEN 0 ELSE Len(cs) - Top(points)
    IN  IF /\ Len(digits) > 0
           /\ Cardinality(points) <= 1
           /\ Len(digits) + Cardinality(points) = Len(cs)
        THEN Some(Dec(neg, StripD(Rev([i \in 1 .. Len(digits) |-> DigitVal[digits[i]]])),
                      scale))
        ELSE None

\* Decimal::from_str(s).or_else(|_| Decimal::from_scientific(s)) on a text
\* without an exponent: an optional sign, then the digits.
DecimalFromStr(cs) ==
    IF cs # <<>> /\ Head(cs) = "-" THEN ScanDecimal(Tail(cs), TRUE)
    ELSE ScanDecimal(cs, FALSE)

----------------------------------------------------------------------------
(* Price                                                                   *)

USD_TO_PRICE_SCALAR == 100000000

\* Price::null
PriceNull == DecZero

\* The digits kept by Price::from_str.
PRICE_DP == 8

\* impl FromStr for Price, the literal arm.
PriceFromStr(cs) ==
    LET data == DecimalFromStr(cs)
    IN  IF data.ok THEN Some(RoundHalfUp(data.v, PRICE_DP)) ELSE None

\* Price::to_millis: None stands for the panic "Price has been constructed
\* with invalid data".
ToMillis(p) ==
    LET scaled_dec == CheckedMul(p, DecOfNat(USD_TO_PRICE_SCALAR))
    IN  IF scaled_dec.ok THEN ToU64(scaled_dec.v) ELSE None

\* Decimal::from_u64: a u64 always fits the 96 bit mantissa.
FromU64(n) == IF CmpD(n, Max96) <= 0 THEN Some(Dec(FALSE, n, 0)) ELSE None

\* A fault for C11: set_scale is left out.
FromMillisUnscaled(millis) == FromU64(millis)

\* Price::from_millis: Decimal::from_u64, then set_scale(8); None stands for
\* the panic "Price value could not be parsed into Decimal".
FromMillis(millis) ==
    LET data == FromU64(millis)
    IN  IF data.ok THEN Some(Dec(FALSE, data.v.m, PRICE_DP)) ELSE None

\* Price::scale, given Decimal::from_f32(scalar): None stands for the panic
\* of unwrap() on from_f32's None.
Scale(p, scalar) == IF scalar.ok THEN Some(DecMul(p, scalar.v)) ELSE None

----------------------------------------------------------------------------
(* Bounds of the model and the inputs drawn.                               *)

\* Weights are the integers -1 .. MaxWeight (a negative weight is accepted
\* by the command line: the weights are arbitrary floats).
MaxWeight == 2

\* Sources that are given a weight other than 0.
MaxActive == 2

\* Report cycles of the automated loop that are explored.
MaxCycles == 2

WeightChoices == {-1} \cup (0 .. MaxWeight)

\* The price texts a source's API answers with.
QuoteTexts ==
    { <<"1", "0">>, <<"2", "0">>,
      <<"1", "0", ".", "0", "0", "0", "0", "0", "0", "0", "1">> }

\* The height the API reports, and a height given on the command line.
ChainHeights == {500}

GivenHeights == {7}

\* binance_us, binance_int, bilaxy, coingecko, in the order of from_weights.
Sources == 1 .. 4

Modes == {"report", "weighted", "automate"}

\* OutputFormat
Formats == {"table", "json"}

\* --min of Automate, at its default.
DefaultMin == 8

U16Max == 65535

\* What distribution.sample gives, in tenths of a minute.
SampleTenths == {-37, 30, 37, 200, 700000}

\* The sample with its fraction dropped (toward zero).
Trunc(tenths) == IF tenths < 0 THEN 0 - ((0 - tenths) \div 10) ELSE tenths \div 10

\* `sample as u16` as the language defines it since Rust 1.45: the fraction
\* is dropped, a negative sample gives 0, one above u16::MAX gives u16::MAX.
F32ToU16(tenths) ==
    IF Trunc(tenths) < 0 THEN 0
    ELSE IF Trunc(tenths) > U16Max THEN U16Max
    ELSE Trunc(tenths)

\* `sample as u16` for every build: a sample outside 0..u16::MAX was
\* undefined behaviour before Rust 1.45, where the builds gave the low 16
\* bits of the truncated sample.
AsU16(tenths) ==
    IF Trunc(tenths) \in 0 .. U16Max
    THEN {Trunc(tenths)}
    ELSE {F32ToU16(tenths), Trunc(tenths) % (U16Max + 1)}

\* A fault for C12: the larger of the two.
DelayMax(floor, sample) == IF floor >= sample THEN floor ELSE sample

\* cmp::min(self.min, sample as u16)
DelayMins(floor, sample) == IF floor <= sample THEN floor ELSE sample

\* --price of the report command: a source name or a literal.
PriceArgs ==
    { [name |-> "binance", text |-> <<>>],
      [name |-> "", text |-> <<"1", "2", ".", "3", "4", "5", "6", "7", "8", "9", "0", "5">>],
      [name |-> "", text |-> <<"-", "1">>],
      [name |-> "", text |-> <<"1", "x">>] }

SourceNames == {"coingecko", "bilaxy", "binance", "binance-us", "binance-int"}

----------------------------------------------------------------------------
(* The retry! macro and fetch_or_null!                                      *)

\* Fixed::from_millis(1000).take(10): the delays the retry iterator holds.
RetryDelays == 10

\* A fault for C5: the first call is counted as one of the delays.
DelayLeftCountingCalls(calls) == calls < RetryDelays

\* retry::retry calls the operation and only after a failure asks the
\* iterator for the next delay: with `calls` calls made, calls - 1 delays
\* are used up, and the operation is tried again while one is left.
DelayLeft(calls) == calls - 1 < RetryDelays

\* A fault for C7: the weight is not looked at.
AlwaysFetch(val) == TRUE

\* fetch_or_null!: `if $val != 0.0`.
ShouldFetch(val) == val # 0

\* A fault for C1 and C2: the failed source keeps its weight.
FetchErrKeepsWeight(val) == [abort |-> FALSE, value |-> <<val, DecZero>>]

\* A fault for C6: the failure of one source ends from_weights.
FetchErrAborts(val) == [abort |-> TRUE, value |-> <<0, DecZero>>]

\* fetch_or_null!, the Err arm: the source is left out, nothing is raised.
FetchErr(val) == [abort |-> FALSE, value |-> <<0, PriceNull>>]

\* fetch_or_null!, the Ok arm.
FetchOk(val, fetched) == <<val, fetched>>

\* fetch_or_null!, the else arm.
FetchNone == <<0, PriceNull>>

----------------------------------------------------------------------------
(* Price::from_weights after the fetches.                                  *)

RECURSIVE SumWeights(_)
SumWeights(vals) ==
    IF vals = <<>> THEN 0 ELSE Head(vals)[1] + SumWeights(Tail(vals))

\* `value.1.scale(value.0); price += value.1` over the values, from
\* Price::null(); a weight is finite, so its from_f32 is never None.
RECURSIVE SumScaled(_)
SumScaled(vals) ==
    IF vals = <<>> THEN PriceNull
    ELSE LET n == Len(vals)
             value == vals[n]
         IN  DecAdd(SumScaled(SubSeq(vals, 1, n - 1)),
                    Scale(value[2], DecimalFromF32(F32OfInt(value[1]))).v)

\* The sums of weights a run can reach.
SumRange == (0 - Cardinality(Sources)) .. (Cardinality(Sources) * MaxWeight)

\* Decimal::from_f32(1.0 / sum_weights), tabulated over SumRange.
RECURSIVE ScalarsFrom(_)
ScalarsFrom(n) ==
    IF n + 1 \in SumRange
    THEN (n :> DecimalFromF32(F32Recip(n))) @@ ScalarsFrom(n + 1)
    ELSE (n :> DecimalFromF32(F32Recip(n)))

Scalar == ScalarsFrom(0 - Cardinality(Sources))

\* A fault for C4: the check of the sum is left out.
NeverNoPriceSource(sum_weights) == FALSE

\* `if sum_weights == 0.0 { panic!(...) }`
NoPriceSource(sum_weights) == sum_weights = 0

\* [ok, err, v]: the price, or the panic that ends the process.
FromWeights(vals) ==
    LET sum_weights == SumWeights(vals)
        price == SumScaled(vals)
    IN  IF NoPriceSource(sum_weights)
        THEN [ok |-> FALSE, err |-> "NoPriceSource", v |-> PriceNull]
        ELSE LET scaled == Scale(price, Scalar[sum_weights])
             IN  IF scaled.ok
                 THEN [ok |-> TRUE, err |-> "", v |-> scaled.v]
                 ELSE [ok |-> FALSE, err |-> "UnwrapNone", v |-> PriceNull]

----------------------------------------------------------------------------
(* The commands.                                                           *)

VARIABLES
    mode,          \* the command: Report, ReportWeightedAverage, Automate
    weights,       \* Weights, by source
    priceArg,      \* Report: --price
    blockArg,      \* --block: a height, or 0 for "auto" / none
    commit,        \* Report: --commit
    pc,            \* the place the command has reached
    cycle,         \* Automate: the pass of `loop` that is running
    src,           \* from_weights: the source whose fetch_or_null! runs
    tries,         \* calls made so far by the retry that is running
    gaveUp,        \* calls made by the last retry that returned Err (0: none)
    called,        \* the sources asked over the network in this pass
    answered,      \* the sources whose fetch returned Ok in this pass
    values,        \* from_weights: `values`, as far as it is filled
    price,         \* the Price of the report (Some / None)
    block_height,  \* the block height of the report (0: none yet)
    txn,           \* BlockchainTxnPriceOracleV1
    decrypts,      \* calls of wallet.decrypt
    signs,         \* calls of txn.sign
    submits,       \* calls of client.submit_txn
    status,        \* Some(PendingTxnStatus) or None, as print_txn gets it
    format,        \* opts.format
    shown,         \* print_txn: the Price::from_millis(txn.price) of the table
    sample,        \* Automate: the delay sampled after the report (tenths)
    delay_mins,    \* Automate: the minutes slept after the report
    heightAsked,   \* client.get_height was called for this report
    heightGaveUp,  \* calls made by the height fetch that failed (0: none)
    outcome        \* "running", "ok", or the error or panic that ended the run

vars ==
    << mode, weights, priceArg, blockArg, commit, pc, cycle, src, tries, gaveUp,
       called, answered, values, price, block_height, txn, decrypts, signs,
       submits, status, format, shown, sample, delay_mins, heightAsked,
       heightGaveUp, outcome >>

args == << mode, weights, priceArg, blockArg, commit, format >>

\* What is kept of the printing, of the delay and of the height fetch.
shownVars == << shown >>

delayVars == << sample, delay_mins >>

heightVars == << heightAsked, heightGaveUp >>

NoTxn == [set |-> FALSE, price |-> <<>>, block_height |-> 0]

NoArg == [name |-> "", text |-> <<>>]

\* The values, one per source, before any fetch.
ZeroWeights == [s \in Sources |-> 0]

\* The weights of a run: at most MaxActive sources are switched on.
WeightInputs ==
    { w \in [Sources -> WeightChoices] :
        Cardinality({s \in Sources : w[s] # 0}) <= MaxActive }

Init ==
    /\ mode \in Modes
    /\ weights \in IF mode = "report" THEN {ZeroWeights} ELSE WeightInputs
    /\ priceArg \in IF mode = "report" THEN PriceArgs ELSE {NoArg}
    /\ blockArg \in IF mode = "automate" THEN {0} ELSE {0} \cup GivenHeights
    /\ commit \in IF mode = "report" THEN BOOLEAN ELSE {FALSE}
    /\ pc = CASE mode = "report" -> "arg_price"
              [] mode = "weighted" -> "fetch"
              [] mode = "automate" -> "decrypt"
    /\ cycle = 1
    /\ src = 1
    /\ tries = 0
    /\ gaveUp = 0
    /\ called = {}
    /\ answered = {}
    /\ values = <<>>
    /\ price = None
    /\ block_height = 0
    /\ txn = NoTxn
    /\ decrypts = 0
    /\ signs = 0
    /\ submits = 0
    /\ status = FALSE
    /\ format \in IF mode = "report" THEN Formats ELSE {"table"}
    /\ shown = None
    /\ sample = 0
    /\ delay_mins = 0
    /\ heightAsked = FALSE
    /\ heightGaveUp = 0
    /\ outcome = "running"

\* A fault for C14: the failed call is made again.
ExitRetries(how) ==
    /\ pc' = pc
    /\ outcome' = how

\* A fault for C15: Automate reports the error and goes on to the delay.
ExitContinues(how) ==
    /\ pc' = IF mode = "automate" THEN "sleep" ELSE "done"
    /\ outcome' = how

\* The process ends: `?` returns the error, or a panic unwinds.
Exit(how) ==
    /\ pc' = "done"
    /\ outcome' = how

\* impl FromStr for Price, a source arm: one fetch, not retried.
ArgPriceSource ==
    /\ pc = "arg_price"
    /\ priceArg.name \in SourceNames
    /\ \/ \E text \in QuoteTexts :
            /\ price' = PriceFromStr(text)
            /\ pc' = "arg_block"
            /\ outcome' = outcome
       \/ /\ Exit("ArgError")
          /\ price' = price
    /\ UNCHANGED << args, shownVars, delayVars, heightVars, cycle, src, tries, gaveUp, called, answered, values, block_height,
                    txn, decrypts, signs, submits, status >>

\* impl FromStr for Price, the literal arm.
ArgPriceLiteral ==
    /\ pc = "arg_price"
    /\ priceArg.name \notin SourceNames
    /\ LET parsed == PriceFromStr(priceArg.text)
       IN  IF parsed.ok
           THEN /\ price' = parsed
                /\ pc' = "arg_block"
                /\ outcome' = outcome
           ELSE /\ Exit("ArgError")
                /\ price' = price
    /\ UNCHANGED << args, shownVars, delayVars, heightVars, cycle, src, tries, gaveUp, called, answered, values, block_height,
                    txn, decrypts, signs, submits, status >>

\* impl FromStr for Block: "auto" asks the API once, else the number.
ArgBlock ==
    /\ pc = "arg_block"
    /\ IF blockArg = 0
       THEN /\ heightAsked' = TRUE
            /\ \/ \E h \in ChainHeights :
                    /\ block_height' = h
                    /\ pc' = "decrypt"
                    /\ outcome' = outcome
                    /\ heightGaveUp' = heightGaveUp
               \/ /\ Exit("ArgError")
                  /\ block_height' = block_height
                  /\ heightGaveUp' = 1
       ELSE /\ block_height' = blockArg
            /\ pc' = "decrypt"
            /\ outcome' = outcome
            /\ UNCHANGED heightVars
    /\ UNCHANGED << args, shownVars, delayVars, cycle, src, tries, gaveUp, called, answered, values, price, txn,
                    decrypts, signs, submits, status >>

\* get_password, load_wallet, wallet.decrypt: each `?`.
Decrypt ==
    /\ pc = "decrypt"
    /\ decrypts' = decrypts + 1
    /\ \/ /\ pc' = IF mode = "automate" THEN "fetch" ELSE "build"
          /\ outcome' = outcome
       \/ Exit("WalletError")
    /\ UNCHANGED << args, shownVars, delayVars, heightVars, cycle, src, tries, gaveUp, called, answered, values, price,
                    block_height, txn, signs, submits, status >>

\* from_weights moves on to the next fetch_or_null!, or to the sums.
NextSource(value) ==
    /\ values' = Append(values, value)
    /\ tries' = 0
    /\ src' = src + 1
    /\ pc' = IF src + 1 \in Sources THEN "fetch" ELSE "aggregate"
    /\ outcome' = outcome

\* fetch_or_null! with a weight of 0: no fetch.
FetchSkip ==
    /\ pc = "fetch"
    /\ ~ShouldFetch(weights[src])
    /\ NextSource(FetchNone)
    /\ UNCHANGED << args, shownVars, delayVars, heightVars, cycle, gaveUp, called, answered, price, block_height, txn,
                    decrypts, signs, submits, status >>

\* A call of the source that answers.
FetchSucceed ==
    /\ pc = "fetch"
    /\ ShouldFetch(weights[src])
    /\ called' = called \cup {src}
    /\ answered' = answered \cup {src}
    /\ \E text \in QuoteTexts :
          NextSource(FetchOk(weights[src], PriceFromStr(text).v))
    /\ UNCHANGED << args, shownVars, delayVars, heightVars, cycle, gaveUp, price, block_height, txn, decrypts,
                    signs, submits, status >>

\* A call of the source that fails: retry! sleeps and calls again while a
\* delay is left, then fetch_or_null! takes the Err arm.
FetchFail ==
    /\ pc = "fetch"
    /\ ShouldFetch(weights[src])
    /\ called' = called \cup {src}
    /\ IF DelayLeft(tries + 1)
       THEN /\ tries' = tries + 1
            /\ UNCHANGED << src, values, pc, outcome, gaveUp >>
       ELSE /\ gaveUp' = tries + 1
            /\ IF FetchErr(weights[src]).abort
               THEN /\ Exit("FetchError")
                    /\ UNCHANGED << src, values, tries >>
               ELSE NextSource(FetchErr(weights[src]).value)
    /\ UNCHANGED << args, shownVars, delayVars, heightVars, cycle, answered, price, block_height, txn, decrypts,
                    signs, submits, status >>

\* from_weights from `let mut price = Price::null()` to its end.
Aggregate ==
    /\ pc = "aggregate"
    /\ LET r == FromWeights(values)
       IN  IF r.ok
           THEN /\ price' = Some(r.v)
                /\ pc' = "height"
                /\ outcome' = outcome
           ELSE /\ Exit(r.err)
                /\ price' = price
    /\ UNCHANGED << args, shownVars, delayVars, heightVars, cycle, src, tries, gaveUp, called, answered, values, block_height,
                    txn, decrypts, signs, submits, status >>

\* A fault for C19: the envelope is signed before the transaction is built.
AfterHeightSkipsBuild == "sign"

\* With the height known, ReportWeightedAverage asks for the password and
\* Automate, which has the keypair, builds the transaction.
AfterHeight == IF mode = "weighted" THEN "decrypt" ELSE "build"

\* ReportWeightedAverage with --block: the height as given.
HeightGiven ==
    /\ pc = "height"
    /\ mode = "weighted"
    /\ blockArg # 0
    /\ block_height' = blockArg
    /\ pc' = AfterHeight
    /\ UNCHANGED << args, shownVars, delayVars, heightVars, cycle, src, tries, gaveUp, called, answered, values, price, txn,
                    decrypts, signs, submits, status, outcome >>

\* A fault for C16: the height fetch is retried in every command.
HeightAlwaysRetried == TRUE

\* The height fetch goes through retry_fn in Automate only.
HeightRetried == mode = "automate"

\* client.get_height() answers.
HeightSucceed ==
    /\ pc = "height"
    /\ mode = "automate" \/ blockArg = 0
    /\ \E h \in ChainHeights : block_height' = h
    /\ tries' = 0
    /\ pc' = AfterHeight
    /\ heightAsked' = TRUE
    /\ heightGaveUp' = heightGaveUp
    /\ UNCHANGED << args, shownVars, delayVars, cycle, src, gaveUp, called, answered, values, price, txn,
                    decrypts, signs, submits, status, outcome >>

\* A fault for C17: a failed get_height() is taken as the height 0 and the
\* report goes on.
HeightFailDefaults ==
    /\ pc = "height"
    /\ mode = "automate" \/ blockArg = 0
    /\ heightAsked' = TRUE
    /\ heightGaveUp' = tries + 1
    /\ block_height' = 0
    /\ tries' = 0
    /\ pc' = AfterHeight
    /\ UNCHANGED << args, shownVars, delayVars, cycle, src, gaveUp, called, answered,
                    values, price, txn, decrypts, signs, submits, status, outcome >>

\* client.get_height() fails: `?` in ReportWeightedAverage; in Automate
\* retry_fn over the ten delays, then unwrap() panics.
HeightFail ==
    /\ pc = "height"
    /\ mode = "automate" \/ blockArg = 0
    /\ heightAsked' = TRUE
    /\ IF HeightRetried /\ DelayLeft(tries + 1)
       THEN /\ tries' = tries + 1
            /\ UNCHANGED << pc, outcome, gaveUp, heightGaveUp >>
       ELSE /\ gaveUp' = IF HeightRetried THEN tries + 1 ELSE gaveUp
            /\ heightGaveUp' = tries + 1
            /\ tries' = tries
            /\ Exit("HeightError")
    /\ UNCHANGED << args, shownVars, delayVars, cycle, src, called, answered, values, price, block_height, txn,
                    decrypts, signs, submits, status >>

\* BlockchainTxnPriceOracleV1 { price: price.to_millis(), block_height, .. }
Build ==
    /\ pc = "build"
    /\ LET millis == ToMillis(price.v)
       IN  IF millis.ok
           THEN /\ txn' = [set |-> TRUE, price |-> millis.v,
                           block_height |-> block_height]
                /\ pc' = "sign"
                /\ outcome' = outcome
           ELSE /\ Exit("InvalidData")
                /\ txn' = txn
    /\ UNCHANGED << args, shownVars, delayVars, heightVars, cycle, src, tries, gaveUp, called, answered, values, price,
                    block_height, decrypts, signs, submits, status >>

\* txn.sign(&keypair, Signer::Owner)?
Sign ==
    /\ pc = "sign"
    /\ signs' = signs + 1
    /\ \/ /\ pc' = "submit"
          /\ outcome' = outcome
       \/ Exit("SignError")
    /\ UNCHANGED << args, shownVars, delayVars, heightVars, cycle, src, tries, gaveUp, called, answered, values, price,
                    block_height, txn, decrypts, submits, status >>

\* A fault for C18: the envelope is submitted whatever --commit says.
AlwaysCommits == TRUE

\* `if self.commit` in Report; the other commands always submit.
Commits == mode = "report" => commit

\* Report without --commit: `None`, no call.
NoSubmit ==
    /\ pc = "submit"
    /\ ~Commits
    /\ status' = FALSE
    /\ pc' = "print"
    /\ UNCHANGED << args, shownVars, delayVars, heightVars, cycle, src, tries, gaveUp, called, answered, values, price,
                    block_height, txn, decrypts, signs, submits, outcome >>

\* client.submit_txn(&envelope)?
Submit ==
    /\ pc = "submit"
    /\ Commits
    /\ submits' = submits + 1
    /\ \/ /\ status' = TRUE
          /\ pc' = "print"
          /\ outcome' = outcome
       \/ /\ Exit("SubmitError")
          /\ status' = status
    /\ UNCHANGED << args, shownVars, delayVars, heightVars, cycle, src, tries, gaveUp, called, answered, values, price,
                    block_height, txn, decrypts, signs >>

\* A fault for C13 and C20: Automate returns after its first report.
AfterPrintEnds == "done"

\* After print_txn: Report and ReportWeightedAverage return its Ok, the
\* loop of Automate goes on to the delay.
AfterPrint == IF mode = "automate" THEN "sleep" ELSE "done"

\* print_txn: `?` on envelope.to_b64() and on the printing; the table shows
\* Price::from_millis(txn.price), which panics on None.
PrintTxn ==
    /\ pc = "print"
    /\ \/ /\ format = "table" => FromMillis(txn.price).ok
          /\ shown' = IF format = "table" THEN FromMillis(txn.price) ELSE shown
          /\ pc' = AfterPrint
          /\ outcome' = IF AfterPrint = "done" THEN "ok" ELSE outcome
       \/ /\ format = "table" /\ ~FromMillis(txn.price).ok
          /\ Exit("ParseError")
          /\ shown' = shown
       \/ /\ Exit("PrintError")
          /\ shown' = shown
    /\ UNCHANGED << args, delayVars, heightVars, cycle, src, tries, gaveUp, called,
                    answered, values, price, block_height, txn, decrypts, signs,
                    submits, status >>

\* let delay_mins = cmp::min(self.min, distribution.sample(&mut rng) as u16)
Delay ==
    /\ pc = "sleep"
    /\ \E tenths \in SampleTenths :
          /\ sample' = tenths
          /\ \E cast \in AsU16(tenths) : delay_mins' = DelayMins(DefaultMin, cast)
    /\ pc' = "sleeping"
    /\ UNCHANGED << args, shownVars, heightVars, cycle, src, tries, gaveUp, called,
                    answered, values, price, block_height, txn, decrypts, signs,
                    submits, status, outcome >>

\* sleep(minutes), then the next pass of `loop`, whose locals are new.
Sleep ==
    /\ pc = "sleeping"
    /\ cycle < MaxCycles
    /\ cycle' = cycle + 1
    /\ pc' = "fetch"
    /\ src' = 1
    /\ tries' = 0
    /\ gaveUp' = 0
    /\ called' = {}
    /\ answered' = {}
    /\ values' = <<>>
    /\ price' = None
    /\ block_height' = 0
    /\ txn' = NoTxn
    /\ status' = FALSE
    /\ shown' = None
    /\ sample' = 0
    /\ delay_mins' = 0
    /\ heightAsked' = FALSE
    /\ heightGaveUp' = 0
    /\ UNCHANGED << args, decrypts, signs, submits, outcome >>

Next ==
    \/ ArgPriceSource
    \/ ArgPriceLiteral
    \/ ArgBlock
    \/ Decrypt
    \/ FetchSkip
    \/ FetchSucceed
    \/ FetchFail
    \/ Aggregate
    \/ HeightGiven
    \/ HeightSucceed
    \/ HeightFail
    \/ Build
    \/ Sign
    \/ NoSubmit
    \/ Submit
    \/ PrintTxn
    \/ Delay
    \/ Sleep

Spec == Init /\ [][Next]_vars

----------------------------------------------------------------------------
(* The aggregation pass of ReportWeightedAverage and of Automate.          *)

\* The sources that were asked and gave no answer in any call.
Failed == called \ answered

\* All four fetch_or_null! are done.
Gathered == Len(values) = Cardinality(Sources)

\* from_weights has returned or panicked.
Aggregated == Gathered /\ pc # "aggregate"

\* No weight is negative.
PlainWeights == \A s \in Sources : weights[s] >= 0

\* The weight the sources that answered were given.
WeightOf(s) == IF s \in answered THEN weights[s] ELSE 0

ContributedWeight == WeightOf(1) + WeightOf(2) + WeightOf(3) + WeightOf(4)

\* An integer as a Decimal.
DecOfInt(n) == Dec(n < 0, NatD(Abs(n)), 0)

\* C1: in ReportWeightedAverage and in every pass of Automate, submit_txn
\* is reached (the command is at or past the call) only if a source with a
\* weight other than 0 answered in that pass.
C1_SubmitNeedsAnAnswer ==
    (mode # "report" /\ pc \in {"submit", "print", "sleep", "sleeping"})
        => \E s \in answered : weights[s] # 0

\* The second pass of Automate has submitted with one source out of two.
C1_Witness ==
    /\ mode = "automate" /\ cycle = 2 /\ pc = "print" /\ submits = 2
    /\ Cardinality(answered) = 1 /\ Cardinality(Failed) = 1

\* The values of the pass with the failed sources given the weight 0.
ValuesWithoutFailed ==
    [s \in 1 .. Len(values) |-> IF s \in Failed THEN FetchNone ELSE values[s]]

\* C2: a source of weight > 0 that fails on every call is left out of the
\* sum of the weights and of the sum of the prices: the price of the pass is
\* the one from_weights gives with the weight 0 for that source, and the sum
\* of the weights is the weight of the sources that answered.
C2_FailedSourceExcluded ==
    (mode # "report" /\ Aggregated /\ price.ok)
        => LET without == FromWeights(ValuesWithoutFailed)
           IN  /\ SumWeights(values) = ContributedWeight
               /\ without.ok
               /\ price.v = without.v

\* binance_us of weight 2 answers 10, binance_int of weight > 0 fails: 10.
C2_Witness ==
    /\ mode = "weighted" /\ pc = "height" /\ price.ok
    /\ weights[1] = 2 /\ 1 \in answered
    /\ weights[2] > 0 /\ 2 \in Failed
    /\ weights[3] = 0 /\ weights[4] = 0
    /\ SumWeights(values) = 2
    /\ DecEq(price.v, DecOfNat(10))

\* C3, as claimed (and for weights >= 0 only): the price of the pass is
\* exactly sum(weight_i * price_i) / sum(weight_i), that is, the price times
\* the sum of the weights is the sum of the weighted prices.
C3_ExactWeightedMean ==
    (mode # "report" /\ PlainWeights /\ Aggregated /\ price.ok)
        => DecEq(DecMul(price.v, DecOfInt(SumWeights(values))), SumScaled(values))

\* C4: with no weight contributed (all weights 0, or no source of a weight
\* other than 0 answered), from_weights ends in the panic "Must have at
\* least one price source": no price is returned, nothing is built.
C4_NoViableSources ==
    (mode # "report" /\ Aggregated /\ ContributedWeight = 0)
        => /\ outcome = "NoPriceSource"
           /\ price = None
           /\ txn = NoTxn

\* Every source that was given a weight failed on all its calls.
C4_Witness ==
    /\ outcome = "NoPriceSource"
    /\ Cardinality(called) = 2 /\ answered = {}
    /\ gaveUp # 0

\* C5: retry gives up on an operation that always fails after
\* RetryDelays + 1 calls (one call, and one more after each of the delays),
\* and never makes more.
C5_CallsBeforeGivingUp ==
    /\ tries <= RetryDelays
    /\ gaveUp # 0 => gaveUp = RetryDelays + 1

\* C5, as claimed: retry gives up after as many calls as there are delays.
C5_AsClaimed == gaveUp # 0 => gaveUp = RetryDelays

\* The height fetch of Automate has given up.
C5_Witness ==
    /\ mode = "automate" /\ outcome = "HeightError"
    /\ gaveUp = RetryDelays + 1 /\ tries = RetryDelays

\* C6: a source that fails on every call ends neither from_weights nor
\* the command: every source of a weight other than 0 is asked, and with
\* weights >= 0 a price is returned when one of them answered.
C6_FailureIsolated ==
    mode # "report"
        => /\ outcome # "FetchError"
           /\ Gathered => called = {s \in Sources : weights[s] # 0}
           /\ (Aggregated /\ answered # {} /\ PlainWeights) => price.ok

\* A pass of Automate with one source failed went through to the sleep.
C6_Witness ==
    /\ mode = "automate" /\ pc = "sleep" /\ price.ok
    /\ Failed # {} /\ answered # {}
    /\ PlainWeights

\* C7: a source of weight 0 is never asked (no call, no retry) and its
\* value is (0, Price::null()).
C7_ZeroWeightNotFetched ==
    /\ \A s \in called : weights[s] # 0
    /\ \A s \in 1 .. Len(values) : weights[s] = 0 => values[s] = <<0, PriceNull>>
    /\ (pc = "fetch" /\ weights[src] = 0) => tries = 0

\* A pass with two sources asked and two of weight 0 passed over.
C7_Witness ==
    /\ pc = "aggregate" /\ Cardinality(called) = 2
    /\ Cardinality({s \in Sources : weights[s] = 0}) = 2
    /\ values[3] = <<0, PriceNull>>

\* The price rounded half up to PRICE_DP fractional digits, in units of
\* 10^-PRICE_DP.
RoundedUnits(p) ==
    LET r == RoundHalfUp(p, PRICE_DP)
    IN  ShiftL(r.m, PRICE_DP - r.scale)

\* C8, as claimed (and for weights >= 0 only): the price of a transaction
\* is the price of the report rounded half up to 8 fractional digits and
\* multiplied by 10^8.
C8_MillisRounded ==
    (PlainWeights /\ txn.set) => txn.price = RoundedUnits(price.v)

----------------------------------------------------------------------------
(* The Report command over a range of price literals: Price::from_str,     *)
(* then Price::to_millis when the transaction is built.                    *)

WholeParts ==
    { <<"0">>, <<"1", "2">>,
      <<"1", "8", "4", "4", "6", "7", "4", "4", "0", "7", "3", "7">>,
      <<"1", "8", "4", "4", "6", "7", "4", "4", "0", "7", "3", "8">>,
      <<"7", "0", "0", "0", "0", "0", "0", "0", "0", "0", "0", "0", "0", "0", "0",
        "0", "0", "0", "0">>,
      <<"9", "0", "0", "0", "0", "0", "0", "0", "0", "0", "0", "0", "0", "0", "0",
        "0", "0", "0", "0", "0", "0">> }

FractionParts ==
    { <<>>, <<".", "5">>,
      <<".", "3", "4", "5", "6", "7", "8", "9", "0", "4">>,
      <<".", "3", "4", "5", "6", "7", "8", "9", "0", "5">>,
      <<".", "0", "9", "5", "5", "1", "6", "1", "5">>,
      <<".", "0", "9", "5", "5", "1", "6", "1", "6">>,
      <<".", "0", "9", "5", "5", "1", "6", "1", "5", "4">>,
      <<".", "0", "9", "5", "5", "1", "6", "1", "5", "5">>,
      <<".", "9", "9", "9", "9", "9", "9", "9", "9", "5">> }

\* The literals without a sign; a Decimal holds up to 28 digits as written.
NonNegLiterals ==
    { l \in {w \o f : w \in WholeParts, f \in FractionParts} : Len(l) <= 29 }

\* ... and the same with a minus sign, but for the literals of value zero.
NegLiterals == { <<"-">> \o l : l \in NonNegLiterals \ {<<"0">>} }

\* Texts that are no decimal literal.
BadLiterals == { <<>>, <<"1", "x">>, <<"1", ".", "2", ".", "3">>, <<"-">> }

LiteralArgs ==
    { [name |-> "", text |-> l] : l \in NonNegLiterals \cup NegLiterals \cup BadLiterals }

InitPrice ==
    /\ mode = "report"
    /\ weights = ZeroWeights
    /\ priceArg \in LiteralArgs
    /\ blockArg \in {0} \cup GivenHeights
    /\ commit \in BOOLEAN
    /\ pc = "arg_price"
    /\ cycle = 1
    /\ src = 1
    /\ tries = 0
    /\ gaveUp = 0
    /\ called = {}
    /\ answered = {}
    /\ values = <<>>
    /\ price = None
    /\ block_height = 0
    /\ txn = NoTxn
    /\ decrypts = 0
    /\ signs = 0
    /\ submits = 0
    /\ status = FALSE
    /\ format \in IF mode = "report" THEN Formats ELSE {"table"}
    /\ shown = None
    /\ sample = 0
    /\ delay_mins = 0
    /\ heightAsked = FALSE
    /\ heightGaveUp = 0
    /\ outcome = "running"

NextPrice ==
    \/ ArgPriceLiteral
    \/ ArgBlock
    \/ Decrypt
    \/ Build
    \/ Sign
    \/ NoSubmit
    \/ Submit
    \/ PrintTxn

SpecPrice == InitPrice /\ [][NextPrice]_vars

\* price.to_millis() has returned or panicked.
BuildDone == txn.set \/ outcome = "InvalidData"

\* The literal as written, rounded half up to PRICE_DP fractional digits, in
\* units of 10^-PRICE_DP: the digits before the point, the first PRICE_DP
\* digits after it (zeros where there are none), and one more unit when the
\* next digit is 5 or more.
LiteralUnits(cs) ==
    LET points == {i \in 1 .. Len(cs) : cs[i] = "."}
        pt == IF points = {} THEN Len(cs) + 1 ELSE Top(points)
        whole == SubSeq(cs, 1, pt - 1)
        frac == SubSeq(cs, pt + 1, Len(cs))
        kept == [i \in 1 .. Len(whole) + PRICE_DP |->
                    IF i <= Len(whole) THEN DigitVal[whole[i]]
                    ELSE IF i - Len(whole) <= Len(frac)
                         THEN DigitVal[frac[i - Len(whole)]]
                         ELSE 0]
        units == StripD(Rev(SubSeq(kept, 1, Len(whole) + PRICE_DP)))
    IN  IF Len(frac) > PRICE_DP /\ DigitVal[frac[PRICE_DP + 1]] >= 5
        THEN IncD(units)
        ELSE units

ScaledUnits(p) == ShiftL(p.m, PRICE_DP - p.scale)

\* C10: to_millis panics, and no transaction is built, when the price is
\* negative or when the price times 10^8 is more than 2^64 - 1; for every
\* other price it gives the price times 10^8.
C10_MillisOrPanic ==
    (price.ok /\ BuildDone)
        => IF price.v.neg \/ CmpD(ScaledUnits(price.v), U64Max) > 0
           THEN ~txn.set /\ outcome = "InvalidData"
           ELSE txn.set /\ txn.price = ScaledUnits(price.v)

\* The price 184467440737.09551616 is 2^64 units: one too many.
C10_Witness ==
    /\ price.ok /\ ~price.v.neg
    /\ ScaledUnits(price.v) = IncD(U64Max)
    /\ outcome = "InvalidData" /\ ~txn.set

\* ---------------------------------------------------------------------------
\* Price::from_millis against Price::to_millis (specification SpecPrice)
\* ---------------------------------------------------------------------------

\* The table of print_txn has shown the price of the transaction.
Shown == shown.ok

\* C11: Price::from_millis gives a price for every u64 a transaction holds,
\* and for a price that is not negative, has at most PRICE_DP fractional
\* digits and whose units fit u64, from_millis(to_millis(p)) equals p.
C11_RoundTrip ==
    /\ txn.set => FromMillis(txn.price).ok
    /\ Shown => /\ price.ok
                /\ price.v.scale <= PRICE_DP
                /\ ToMillis(price.v).ok
                /\ shown = FromMillis(ToMillis(price.v).v)
                /\ DecEq(shown.v, price.v)

\* A price with a fraction and a price of nineteen digits or more have made
\* the round trip.
C11_Witness ==
    /\ Shown
    /\ price.v.scale = PRICE_DP
    /\ Len(price.v.m) >= 19
    /\ price.v.m[1] # 0

\* ---------------------------------------------------------------------------
\* The Automate command: the delay, the loop, errors (specification Spec)
\* ---------------------------------------------------------------------------

\* The smaller of two integers.
Min(a, b) == IF a <= b THEN a ELSE b

\* The delay of this pass has been computed.
Delayed == mode = "automate" /\ pc = "sleeping"

Phase ==
    CASE pc = "decrypt" -> "Idle"
      [] pc \in {"fetch", "aggregate"} -> "Aggregating"
      [] pc \in {"height", "build", "sign", "submit", "print"} -> "Reporting"
      [] pc \in {"sleep", "sleeping"} -> "Sleeping"
      [] OTHER -> "Stopped"

\* The steps of the loop from one phase to the next.
PhaseSteps ==
    { << "Idle", "Aggregating" >>, << "Aggregating", "Reporting" >>,
      << "Reporting", "Sleeping" >>, << "Sleeping", "Aggregating" >> }

\* C13: Automate only moves Idle -> Aggregating -> Reporting -> Sleeping ->
\* Aggregating -> ...: it has no state in which it has finished (run never
\* returns Ok; it stops only by an error or a panic, and never from
\* Sleeping), a report that went through print_txn is followed by Sleeping
\* and Sleeping by nothing but a new Aggregating.
C13_PhaseOrder ==
    [][mode = "automate" =>
          /\ outcome' # "ok"
          /\ \/ Phase' = Phase
             \/ << Phase, Phase' >> \in PhaseSteps
             \/ /\ Phase' = "Stopped"
                /\ Phase \in {"Idle", "Aggregating", "Reporting"}
                /\ outcome' \notin {"running", "ok"}]_vars

\* The second pass has gone round to Sleeping, after a pass in which a
\* source failed.
C13_Witness ==
    /\ mode = "automate" /\ cycle = 2 /\ Phase = "Sleeping"
    /\ submits = 2 /\ Failed # {}

\* C14: txn.sign is called at most once for each transaction built (one a
\* pass), and when it fails the command has ended: the envelope of that
\* pass is not submitted and no further pass starts.
C14_SignFatal ==
    /\ signs <= cycle
    /\ txn.set \/ signs < cycle
    /\ outcome = "SignError" =>
          /\ pc = "done"
          /\ signs = cycle
          /\ submits < signs
          /\ ~status

\* The signer failed in the second pass of Automate, after the report of
\* the first.
C14_Witness ==
    /\ mode = "automate" /\ outcome = "SignError"
    /\ cycle = 2 /\ signs = 2 /\ submits = 1

\* C15: client.submit_txn is called at most once for each signed envelope,
\* and when it fails the command has ended with that error: in Automate
\* no later pass fetches, signs or submits.
C15_SubmitFatal ==
    /\ submits <= signs
    /\ outcome = "SubmitError" =>
          /\ pc = "done"
          /\ submits = signs
          /\ signs = cycle
          /\ ~status

\* The submission failed in the second pass of Automate.
C15_Witness ==
    /\ mode = "automate" /\ outcome = "SubmitError"
    /\ cycle = 2 /\ submits = 2

\* C16: a failing client.get_height() is called again after each of the
\* RetryDelays delays in the loop of Automate only; ReportWeightedAverage
\* without --block and Report with --block auto call it once and end with
\* its error.
C16_HeightRetries ==
    /\ pc = "height" => tries <= RetryDelays
    /\ heightGaveUp # 0 =>
          /\ pc = "done"
          /\ heightAsked
          /\ heightGaveUp = IF mode = "automate" THEN RetryDelays + 1 ELSE 1

\* C16 as claimed: wherever the height comes from the API, a failed fetch is
\* tried again before the command gives up.
C16_AsClaimed == heightGaveUp # 0 => heightGaveUp > 1

\* ReportWeightedAverage without --block has ended on the first failure of
\* get_height.
C16_Witness ==
    /\ mode = "weighted" /\ blockArg = 0
    /\ outcome = "HeightError" /\ heightGaveUp = 1

\* The transactions built, signed and submitted before this pass.
EarlierPasses == cycle - 1

\* C17: when get_height has failed on its last call the command has ended
\* without a transaction built, signed or submitted in that pass; every
\* transaction carries the height resolved in its pass; and a height given
\* with --block is the one used, the API never being asked for it.
C17_NoReportWithoutHeight ==
    /\ heightGaveUp # 0 =>
          /\ pc = "done"
          /\ outcome \in {"HeightError", "ArgError"}
          /\ txn = NoTxn
          /\ signs = EarlierPasses
          /\ submits = EarlierPasses
    /\ txn.set =>
          /\ txn.block_height = block_height
          /\ block_height \in (IF blockArg # 0 THEN {blockArg} ELSE ChainHeights)
          /\ heightAsked = (blockArg = 0)
    /\ blockArg # 0 => ~heightAsked

\* The second pass of Automate has ended on the height fetch, after the
\* report of the first.
C17_Witness ==
    /\ mode = "automate" /\ cycle = 2
    /\ outcome = "HeightError" /\ heightGaveUp = RetryDelays + 1
    /\ signs = 1 /\ submits = 1

\* The command is past the place of submit_txn in this pass.
PastSubmit ==
    \/ pc \in {"print", "sleep", "sleeping"}
    \/ outcome \in {"ok", "PrintError", "ParseError", "SubmitError"}

\* C18: Report calls submit_txn exactly when --commit is given (without it
\* the signed envelope goes to print_txn with no status);
\* ReportWeightedAverage and every pass of Automate that has a signed
\* envelope call it.
C18_SubmitIffCommit ==
    /\ (mode = "report" /\ ~commit) => submits = 0 /\ ~status
    /\ PastSubmit => submits = (IF mode = "report" /\ ~commit THEN 0 ELSE signs)
    /\ (PastSubmit /\ mode = "report") => signs = 1 /\ submits = (IF commit THEN 1 ELSE 0)

\* Report without --commit has signed, printed and returned without a
\* submission.
C18_Witness ==
    /\ mode = "report" /\ ~commit /\ outcome = "ok"
    /\ signs = 1 /\ submits = 0

\* C19: in each pass of Automate the steps come in the order from_weights,
\* get_height, the transaction, sign, submit_txn, print_txn: a step has
\* been taken in a pass only when the one before it has, the envelope
\* submitted is that of a transaction signed in the same pass and built
\* from the price and the height of that pass; and wallet.decrypt is called
\* exactly once, before the first from_weights.
C19_CycleOrder ==
    mode = "automate" =>
        /\ decrypts = (IF pc = "decrypt" THEN 0 ELSE 1)
        /\ (called # {} \/ cycle > 1) => decrypts = 1
        /\ price.ok => Gathered
        /\ heightAsked => price.ok
        /\ txn.set =>
              /\ heightAsked /\ block_height \in ChainHeights
              /\ txn.block_height = block_height
              /\ ToMillis(price.v) = Some(txn.price)
        /\ signs \in {EarlierPasses, cycle}
        /\ signs = cycle => txn.set
        /\ submits \in {EarlierPasses, cycle}
        /\ submits = cycle => signs = cycle /\ outcome # "SignError"
        /\ shown.ok => submits = cycle /\ status

\* The second pass of Automate has printed its transaction, the wallet
\* having been decrypted once.
C19_Witness ==
    /\ mode = "automate" /\ cycle = 2 /\ pc = "sleep"
    /\ shown.ok /\ submits = 2 /\ signs = 2 /\ decrypts = 1

\* ---------------------------------------------------------------------------
\* The loop of Automate without end (specification SpecLive)
\* ---------------------------------------------------------------------------

\* Automate with weights that are not negative.
InitLive ==
    /\ mode = "automate"
    /\ weights \in {w \in WeightInputs : \A s \in Sources : w[s] >= 0}
    /\ priceArg = NoArg
    /\ blockArg = 0
    /\ commit = FALSE
    /\ pc = "decrypt"
    /\ cycle = 1
    /\ src = 1
    /\ tries = 0
    /\ gaveUp = 0
    /\ called = {}
    /\ answered = {}
    /\ values = <<>>
    /\ price = None
    /\ block_height = 0
    /\ txn = NoTxn
    /\ decrypts = 0
    /\ signs = 0
    /\ submits = 0
    /\ status = FALSE
    /\ format = "table"
    /\ shown = None
    /\ sample = 0
    /\ delay_mins = 0
    /\ heightAsked = FALSE
    /\ heightGaveUp = 0
    /\ outcome = "running"

\* sleep(minutes) and the next pass of `loop`, as Sleep, for the passes
\* after MaxCycles: the passes are counted from 1 again.
Rewind ==
    /\ pc = "sleeping"
    /\ cycle = MaxCycles
    /\ cycle' = 1
    /\ signs' = 0
    /\ submits' = 0
    /\ pc' = "fetch"
    /\ src' = 1
    /\ tries' = 0
    /\ gaveUp' = 0
    /\ called' = {}
    /\ answered' = {}
    /\ values' = <<>>
    /\ price' = None
    /\ block_height' = 0
    /\ txn' = NoTxn
    /\ status' = FALSE
    /\ shown' = None
    /\ sample' = 0
    /\ delay_mins' = 0
    /\ heightAsked' = FALSE
    /\ heightGaveUp' = 0
    /\ UNCHANGED << args, decrypts, outcome >>

NextLive ==
    \/ Decrypt
    \/ FetchSkip
    \/ FetchSucceed
    \/ FetchFail
    \/ Aggregate
    \/ HeightSucceed
    \/ HeightFail
    \/ Build
    \/ Sign
    \/ Submit
    \/ PrintTxn
    \/ Delay
    \/ Sleep
    \/ Rewind

\* The steps that wait for a call to return or for the sleep to end.
Returns ==
    \/ Decrypt
    \/ FetchSkip
    \/ FetchFail
    \/ HeightSucceed
    \/ HeightFail
    \/ Sign
    \/ Submit
    \/ PrintTxn
    \/ Delay
    \/ Sleep
    \/ Rewind

\* The process is scheduled: a step that can be taken is taken (a call
\* returns, the sleep ends), and the computations of from_weights and of
\* to_millis come to their end. Aggregate and Build are enabled exactly at
\* their places and leave them, so their weak fairness is []<>(pc # place).
\* A fetch that answers (FetchSucceed) is never forced: the steps fair at
\* that place are the skip and the failed call.
SpecLive ==
    /\ InitLive
    /\ [][NextLive]_vars
    /\ WF_vars(Returns)
    /\ []<>(pc # "aggregate")
    /\ []<>(pc # "build")

\* run has returned an error or panicked.
Errored == outcome \notin {"running", "ok"}

\* submit_txn has just returned the status of this pass.
JustSubmitted == pc = "print" /\ status

SupposedAway ==
    {"WalletError", "NoPriceSource", "HeightError", "SignError", "SubmitError"}

====
